---- MODULE Spec2Model ----
(***************************************************************************)
(* A model of attack_to_log_source.py: the batch pipeline that turns the   *)
(* technique mapping JSON into table.html (Spec), the Copy KQL button of   *)
(* the generated page (SpecButton) and the footer dropdown filters of the  *)
(* generated page (SpecTable).                                             *)
(*                                                                         *)
(* Text is a sequence of characters, each a one-character string.  An      *)
(* HTML entity produced by html.escape is one element of the sequence      *)
(* ("&lt;"), so escaped and raw text can be told apart.                    *)
(*                                                                         *)
(* Library behaviour the script relies on, as documented: pd.read_json     *)
(* gives back the rows json.dump wrote (no text of the model is numeric);  *)
(* DataTables searches a cell's text with tags stripped and entities       *)
(* decoded, and column().search(input, regex, smart) matches ignoring      *)
(* case, its fourth parameter caseInsen being true by default.             *)
(***************************************************************************)
EXTENDS Integers, Sequences, FiniteSets, TLC

VARIABLES
    pc,                \* the script's position
    techniques_model,  \* the loaded input array (line 27)
    parsed_output,     \* line 20, filled by the loop of lines 30-42
    df,                \* the DataFrame of lines 54-107, a sequence of rows
    html,              \* the rows of the table of lines 110-115
    btn,               \* the page's Copy KQL button under test
    clipboard,         \* what navigator.clipboard holds
    pendingWrites,     \* clipboard.writeText promises not yet settled
    timers,            \* pending setTimeout callbacks, oldest first
    clicks,            \* clicks made so far
    tableData,         \* the DataTable's rows (cell HTML per column)
    colSearch,         \* DataTables' per-column search pattern
    selectVal,         \* each footer select's chosen value
    selectOptions,     \* each footer select's option values
    visible            \* indices of the rows the last draw left visible

vars == <<pc, techniques_model, parsed_output, df, html, btn, clipboard,
          pendingWrites, timers, clicks, tableData, colSearch, selectVal,
          selectOptions, visible>>

pipelineVars == <<pc, techniques_model, parsed_output, df, html>>
buttonVars == <<btn, clipboard, pendingWrites, timers, clicks>>
tableVars == <<tableData, colSearch, selectVal, selectOptions, visible>>

----------------------------------------------------------------------------
(* Bounds of the model. *)

\* The input array holds at most this many techniques.
MaxTechniques == 2

----------------------------------------------------------------------------
(* Text helpers: Python's str methods and html.escape, on character        *)
(* sequences.                                                              *)

RECURSIVE JoinWith(_, _)
\* sep.join(items)
JoinWith(items, sep) ==
    IF items = <<>> THEN <<>>
    ELSE IF Len(items) = 1 THEN items[1]
    ELSE items[1] \o sep \o JoinWith(Tail(items), sep)

IsSpace(c) == c = " "

RECURSIVE LStrip(_)
LStrip(s) == IF s # <<>> /\ IsSpace(s[1]) THEN LStrip(Tail(s)) ELSE s

RECURSIVE RStrip(_)
RStrip(s) ==
    IF s # <<>> /\ IsSpace(s[Len(s)]) THEN RStrip(SubSeq(s, 1, Len(s) - 1)) ELSE s

\* str.strip() and JavaScript's String.prototype.trim()
Strip(s) == RStrip(LStrip(s))

LowerChar(c) ==
    CASE c = "N" -> "n"
      [] c = "A" -> "a"
      [] c = "W" -> "w"
      [] c = "S" -> "s"
      [] c = "L" -> "l"
      [] c = "P" -> "p"
      [] c = "D" -> "d"
      [] c = "E" -> "e"
      [] c = "T" -> "t"
      [] c = "C" -> "c"
      [] c = "B" -> "b"
      [] OTHER -> c

\* str.lower()
Lower(s) == [i \in 1..Len(s) |-> LowerChar(s[i])]

RECURSIVE ReplaceQuote(_)
\* s.replace("'", "\\'")
ReplaceQuote(s) ==
    IF s = <<>> THEN <<>>
    ELSE (IF s[1] = "'" THEN <<"\\", "'">> ELSE <<s[1]>>) \o ReplaceQuote(Tail(s))

EscapeChar(c) ==
    CASE c = "&" -> "&amp;"
      [] c = "<" -> "&lt;"
      [] c = ">" -> "&gt;"
      [] c = "\"" -> "&quot;"
      [] c = "'" -> "&#x27;"
      [] OTHER -> c

\* html.escape(s), quote=True
html_escape(s) == [i \in 1..Len(s) |-> EscapeChar(s[i])]

\* The characters html.escape replaces.
HtmlSpecial == {"&", "<", ">", "\"", "'"}

Nan == <<"n", "a", "n">>

----------------------------------------------------------------------------
(* JSON values of the input.  A tactic or platform is a list of labels or  *)
(* a plain string; filter_in is a list of entries (dictionaries of         *)
(* key/value pairs, or plain strings) or a plain string.                   *)

ListOf(items) == [isList |-> TRUE, items |-> items, text |-> <<>>]
StrOf(text) == [isList |-> FALSE, items |-> <<>>, text |-> text]
DictOf(pairs) == [isDict |-> TRUE, pairs |-> pairs, text |-> <<>>]
EntryStr(text) == [isDict |-> FALSE, pairs |-> <<>>, text |-> text]
Pair(k, v) == [key |-> k, value |-> v]

BaseTechnique ==
    [tactic |-> ListOf(<< <<"P">>, <<"D">> >>),
     technique_id |-> <<"T", "1">>,
     technique |-> <<"n">>,
     name |-> <<"d">>,
     platform |-> ListOf(<< <<"W">> >>),
     event_id |-> <<"E">>,
     log_source |-> <<"s">>,
     filter_in |-> ListOf(<< DictOf(<< Pair(<<"A">>, <<"1">>) >>) >>)]

TacticInputs ==
    { ListOf(<< <<"P">> >>),
      ListOf(<<>>),
      ListOf(<< <<"C", ",", "C">> >>),
      ListOf(<< <<"P">>, <<"D", " ">> >>),
      ListOf(<< <<"P">>, <<>> >>),
      ListOf(<< <<"<", "P">>, <<"D">> >>),
      StrOf(<<"P">>) }

PlatformInputs ==
    { ListOf(<< <<"W">>, <<"L">> >>), ListOf(<< <<"W", "S">> >>) }

TextInputs == { <<"<", "&", ">">>, <<"\"", "'">>, <<>> }

EventIdInputs == { <<"E", "\"">>, <<"E", "'">>, <<"E", "<">> }

FilterInputs ==
    { ListOf(<<>>),
      ListOf(<< DictOf(<< Pair(<<"A">>, <<"1">>) >>),
                DictOf(<< Pair(<<"B">>, <<"2">>) >>) >>),
      ListOf(<< DictOf(<< Pair(<<"A">>, <<"1">>), Pair(<<"B">>, <<"2">>) >>) >>),
      ListOf(<< DictOf(<< Pair(<<"A">>, <<"1", ":", "2">>) >>) >>),
      ListOf(<< DictOf(<< Pair(<<"A">>, <<"<">>) >>) >>),
      ListOf(<< DictOf(<< Pair(<<"A">>, <<"'">>) >>) >>),
      ListOf(<< EntryStr(<<"N", "a", "N">>) >>),
      ListOf(<< EntryStr(<<"n", "a", "n">>) >>),
      ListOf(<< EntryStr(<<" ">>) >>),
      StrOf(<<"A", ":", "1">>) }

\* The technique objects the input array is drawn from: the base technique
\* and every technique that differs from it in one field.
Techniques ==
    {BaseTechnique}
    \cup { [BaseTechnique EXCEPT !.tactic = v] : v \in TacticInputs }
    \cup { [BaseTechnique EXCEPT !.platform = v] : v \in PlatformInputs }
    \cup { [BaseTechnique EXCEPT !.technique_id = v] : v \in TextInputs }
    \cup { [BaseTechnique EXCEPT !.technique = v] : v \in TextInputs }
    \cup { [BaseTechnique EXCEPT !.name = v] : v \in TextInputs }
    \cup { [BaseTechnique EXCEPT !.log_source = v] : v \in TextInputs }
    \cup { [BaseTechnique EXCEPT !.event_id = v] : v \in EventIdInputs }
    \cup { [BaseTechnique EXCEPT !.filter_in = v] : v \in FilterInputs }

InputArrays == UNION { [1..n -> Techniques] : n \in 0..MaxTechniques }

----------------------------------------------------------------------------
(* SECTION 1 and 2 of the script: the pure functions.                      *)

\* The dictionary of lines 32-41.
parsed_techniques(technique) ==
    [tactic |-> technique.tactic,
     technique_id |-> technique.technique_id,
     technique_name |-> technique.technique,
     event_description |-> technique.name,
     platform |-> technique.platform,
     table_or_event_id |-> technique.event_id,
     log_source |-> technique.log_source,
     table_filter |-> technique.filter_in]

\* The join with " " for ", ".
JoinListSpace(x) == IF x.isList THEN JoinWith(x.items, <<" ">>) ELSE x.text

\* The lambda of lines 57-58: ", ".join(x) if isinstance(x, list) else x
JoinList(x) == IF x.isList THEN JoinWith(x.items, <<",", " ">>) ELSE x.text

\* Line 68: ", ".join([f"{key}: {value}" for key, value in entry.items()])
dict_str(entry) ==
    JoinWith([i \in 1..Len(entry.pairs) |->
                 entry.pairs[i].key \o <<":", " ">> \o entry.pairs[i].value],
             <<",", " ">>)

\* Lines 61-73.
format_filter_data(cell_data) ==
    IF cell_data.isList /\ cell_data.items = <<>> THEN <<>>
    ELSE IF ~cell_data.isList /\ cell_data.text = <<>> THEN <<>>
    ELSE IF cell_data.isList
         THEN JoinWith([i \in 1..Len(cell_data.items) |->
                           IF cell_data.items[i].isDict
                           THEN dict_str(cell_data.items[i])
                           ELSE cell_data.items[i].text],
                       <<";", " ">>)
    ELSE cell_data.text

\* A piece of generated HTML: literal markup of the script, or text that
\* comes from a value of the row.
Lit(markup) == [data |-> FALSE, s |-> <<markup>>]
Data(text) == [data |-> TRUE, s |-> text]

\* Lines 85-86.
DisabledButton ==
    << Lit("<button class=\"copy-btn disabled-btn\""),
       Lit(" disabled"),
       Lit("><i class=\"fa-solid fa-ban\"></i>"),
       Lit(" No Filter"),
       Lit("</button>") >>

\* Lines 93-94.
ActiveButton(safe_name, safe_filter) ==
    << Lit("<button class=\"copy-btn active-btn\""),
       Lit(" onclick=\""),
       Lit("generateKQL(this, '"),
       Data(safe_name),
       Lit("', '"),
       Data(safe_filter),
       Lit("')\""),
       Lit("><i class=\"fa-solid fa-terminal\"></i>"),
       Lit(" Copy KQL"),
       Lit("</button>") >>

\* Line 84: not raw_filter or raw_filter.lower() == 'nan' or raw_filter.strip() == ""
NoFilter(raw_filter) ==
    \/ raw_filter = <<>>
    \/ Lower(raw_filter) = Nan
    \/ Strip(raw_filter) = <<>>

\* The button decided on the table name instead of the filter.
create_copy_button_by_name(row) ==
    IF NoFilter(row.table_or_event_id) THEN DisabledButton
    ELSE ActiveButton(ReplaceQuote(row.table_or_event_id),
                      ReplaceQuote(row.table_filter))

\* Lines 79-94.
create_copy_button(row) ==
    IF NoFilter(row.table_filter) THEN DisabledButton
    ELSE ActiveButton(ReplaceQuote(row.table_or_event_id),
                      ReplaceQuote(row.table_filter))

\* Lines 103-106.
add_tooltip(x) ==
    IF x = <<>> THEN <<>>
    ELSE << Lit("<span title=\""), Data(html_escape(x)), Lit("\">"),
            Data(html_escape(x)), Lit("</span>") >>

\* df.columns after line 96, in order.
Columns ==
    <<"tactic", "technique_id", "technique_name", "event_description",
      "platform", "table_or_event_id", "log_source", "table_filter", "Query">>

----------------------------------------------------------------------------
(* The script, step by step. *)

ButtonIdle ==
    /\ btn = [innerHTML |-> "", copied |-> FALSE, tableName |-> <<>>,
              filterString |-> <<>>, technique |-> BaseTechnique]
    /\ clipboard = <<>>
    /\ pendingWrites = 0
    /\ timers = <<>>
    /\ clicks = 0

TableIdle ==
    /\ tableData = <<>>
    /\ colSearch = <<>>
    /\ selectVal = <<>>
    /\ selectOptions = <<>>
    /\ visible = {}

\* Lines 19-27: the state before the loop, for each input file.
Init ==
    /\ pc = "load"
    /\ techniques_model \in InputArrays
    /\ parsed_output = <<>>
    /\ df = <<>>
    /\ html = <<>>
    /\ ButtonIdle
    /\ TableIdle

\* The loop with insert(0, ..) for append.
PrependTechnique(out, technique) == <<parsed_techniques(technique)>> \o out

\* Lines 30-42: one iteration of the loop.
AppendTechnique(out, technique) == Append(out, parsed_techniques(technique))

LoadTechnique ==
    /\ pc = "load"
    /\ Len(parsed_output) < Len(techniques_model)
    /\ parsed_output' =
          AppendTechnique(parsed_output, techniques_model[Len(parsed_output) + 1])
    /\ UNCHANGED <<pc, techniques_model, df, html>>
    /\ UNCHANGED <<buttonVars, tableVars>>

\* Lines 45-54: the loop is over; dump parsed_output and read it back.
ReadJson ==
    /\ pc = "load"
    /\ Len(parsed_output) = Len(techniques_model)
    /\ df' = parsed_output
    /\ pc' = "join"
    /\ UNCHANGED <<techniques_model, parsed_output, html>>
    /\ UNCHANGED <<buttonVars, tableVars>>

\* Line 57 on an empty frame: df["tactic"] raises KeyError.
KeyError ==
    /\ pc = "join"
    /\ df = <<>>
    /\ pc' = "crashed"
    /\ UNCHANGED <<techniques_model, parsed_output, df, html>>
    /\ UNCHANGED <<buttonVars, tableVars>>

JoinRow(row) == [row EXCEPT !.tactic = JoinList(@), !.platform = JoinList(@)]

\* Lines 57-58.
JoinLists ==
    /\ pc = "join"
    /\ df # <<>>
    /\ df' = [i \in 1..Len(df) |-> JoinRow(df[i])]
    /\ pc' = "format"
    /\ UNCHANGED <<techniques_model, parsed_output, html>>
    /\ UNCHANGED <<buttonVars, tableVars>>

FormatRow(row) == [row EXCEPT !.table_filter = format_filter_data(@)]

\* Line 75.
FormatFilters ==
    /\ pc = "format"
    /\ df' = [i \in 1..Len(df) |-> FormatRow(df[i])]
    /\ pc' = "buttons"
    /\ UNCHANGED <<techniques_model, parsed_output, html>>
    /\ UNCHANGED <<buttonVars, tableVars>>

WithQuery(row) ==
    [c \in {Columns[k] : k \in 1..Len(Columns)} |->
        IF c = "Query" THEN create_copy_button(row) ELSE row[c]]

\* Line 96.
CreateButtons ==
    /\ pc = "buttons"
    /\ df' = [i \in 1..Len(df) |-> WithQuery(df[i])]
    /\ pc' = "tooltips"
    /\ UNCHANGED <<techniques_model, parsed_output, html>>
    /\ UNCHANGED <<buttonVars, tableVars>>

\* Lines 101-107: every column but Query.
Sanitize(row) ==
    [c \in DOMAIN row |-> IF c # "Query" THEN add_tooltip(row[c]) ELSE row[c]]

AddTooltips ==
    /\ pc = "tooltips"
    /\ df' = [i \in 1..Len(df) |-> Sanitize(df[i])]
    /\ pc' = "to_html"
    /\ UNCHANGED <<techniques_model, parsed_output, html>>
    /\ UNCHANGED <<buttonVars, tableVars>>

\* Lines 110-115: escape=False, one <tr> per row, one <td> per column.
to_html(frame) ==
    [i \in 1..Len(frame) |-> [k \in 1..Len(Columns) |-> frame[i][Columns[k]]]]

ToHtml ==
    /\ pc = "to_html"
    /\ html' = to_html(df)
    /\ pc' = "done"
    /\ UNCHANGED <<techniques_model, parsed_output, df>>
    /\ UNCHANGED <<buttonVars, tableVars>>

Next ==
    \/ LoadTechnique
    \/ ReadJson
    \/ KeyError
    \/ JoinLists
    \/ FormatFilters
    \/ CreateButtons
    \/ AddTooltips
    \/ ToHtml

Spec == Init /\ [][Next]_vars

----------------------------------------------------------------------------
(* What the generated page reads back from a cell.                         *)

UnescapeChar(c) ==
    CASE c = "&amp;" -> "&"
      [] c = "&lt;" -> "<"
      [] c = "&gt;" -> ">"
      [] c = "&quot;" -> "\""
      [] c = "&#x27;" -> "'"
      [] OTHER -> c

\* Lines 407-409: the text of a cell <span title="..">text</span>, entities
\* decoded; an empty cell has no text.
textContent(d) ==
    IF d = <<>> THEN <<>> ELSE [i \in 1..Len(d[4].s) |-> UnescapeChar(d[4].s[i])]

RECURSIVE Split(_, _)
\* JavaScript's s.split(sep) for a one-character sep: "" splits to [""].
Split(s, sep) ==
    IF \A i \in 1..Len(s) : s[i] # sep THEN <<s>>
    ELSE LET k == CHOOSE i \in 1..Len(s) :
                      s[i] = sep /\ \A j \in 1..(i - 1) : s[j] # sep
         IN <<SubSeq(s, 1, k - 1)>> \o Split(SubSeq(s, k + 1, Len(s)), sep)

RECURSIVE NonEmpty(_)
NonEmpty(items) ==
    IF items = <<>> THEN <<>>
    ELSE (IF items[1] = <<>> THEN <<>> ELSE <<items[1]>>) \o NonEmpty(Tail(items))

\* Lines 412-415: the items of a decoded cell text, trimmed, empty ones
\* dropped, in order.
cleanItems(decoded) ==
    LET parts == Split(decoded, ",")
    IN NonEmpty([i \in 1..Len(parts) |-> Strip(parts[i])])

----------------------------------------------------------------------------
(* The Copy KQL button of the generated page (lines 337-376).              *)

\* A button is clicked at most this many times.
MaxClicks == 3

CopyKqlLabel == "<i class=\"fa-solid fa-terminal\"></i> Copy KQL"
CopiedLabel == "<i class=\"fa-solid fa-check\"></i> Copied!"

RECURSIVE JsString(_)
\* The value of the JavaScript string literal '...' with this body: \' is '.
JsString(body) ==
    IF body = <<>> THEN <<>>
    ELSE IF Len(body) >= 2 /\ body[1] = "\\" /\ body[2] = "'"
         THEN <<"'">> \o JsString(SubSeq(body, 3, Len(body)))
    ELSE <<body[1]>> \o JsString(Tail(body))

\* Text that the onclick attribute of line 93 carries unchanged into the
\* arguments of generateKQL: nothing that ends the attribute, starts an
\* entity or starts a JavaScript escape.
PlainArgument(text) == \A i \in 1..Len(text) : text[i] \notin {"\"", "&", "\\"}

\* Lines 346-354: the condition of one filter, or none.
condition(f) ==
    LET parts == Split(f, ":")
    IN IF Len(parts) >= 2
       THEN << Strip(parts[1]) \o <<" ", "=", "=", " ", "'">>
               \o Strip(JoinWith(Tail(parts), <<":">>)) \o <<"'">> >>
       ELSE <<>>

RECURSIVE conditionsOf(_)
conditionsOf(filters) ==
    IF filters = <<>> THEN <<>>
    ELSE condition(filters[1]) \o conditionsOf(Tail(filters))

Where == <<" ", "|", " ", "w", "h", "e", "r", "e", " ">>
And == <<" ", "a", "n", "d", " ">>

\* Lines 338-361: the query generateKQL builds.
generateKQL(tableName, filterString) ==
    IF filterString # <<>> /\ Strip(filterString) # <<>>
    THEN LET conditions ==
                 IF filterString # <<"N", "o", "n", "e">> /\ filterString # Nan
                 THEN conditionsOf(Split(filterString, ";"))
                 ELSE <<>>
         IN IF Len(conditions) > 0
            THEN tableName \o Where \o JoinWith(conditions, And)
            ELSE tableName
    ELSE tableName

\* The techniques whose row carries a Copy KQL button with plain arguments.
ButtonTechniques ==
    { t \in Techniques :
        LET row == FormatRow(JoinRow(parsed_techniques(t)))
        IN /\ ~NoFilter(row.table_filter)
           /\ PlainArgument(row.table_or_event_id)
           /\ PlainArgument(row.table_filter) }

PipelineDone ==
    /\ pc = "done"
    /\ parsed_output = <<>>
    /\ df = <<>>
    /\ html = <<>>

\* The page as loaded: the button of one row, as line 96 generated it.
InitButton ==
    /\ \E t \in ButtonTechniques :
          LET button == create_copy_button(FormatRow(JoinRow(parsed_techniques(t))))
          IN /\ techniques_model = <<t>>
             /\ btn = [innerHTML |-> CopyKqlLabel,
                       copied |-> FALSE,
                       tableName |-> JsString(button[4].s),
                       filterString |-> JsString(button[6].s),
                       technique |-> t]
    /\ clipboard = <<>>
    /\ pendingWrites = 0
    /\ timers = <<>>
    /\ clicks = 0
    /\ PipelineDone
    /\ TableIdle

\* Lines 337-364: a click runs generateKQL up to the writeText call, whose
\* promise settles later.
Click ==
    /\ clicks < MaxClicks
    /\ clicks' = clicks + 1
    /\ pendingWrites' = pendingWrites + 1
    /\ UNCHANGED <<btn, clipboard, timers>>
    /\ UNCHANGED <<pipelineVars, tableVars>>

\* Lines 364-372: the write succeeded; the button shows Copied! and a
\* 2-second timer is set that restores what the button showed just now.
WriteResolved ==
    /\ pendingWrites > 0
    /\ pendingWrites' = pendingWrites - 1
    /\ clipboard' = generateKQL(btn.tableName, btn.filterString)
    /\ timers' = Append(timers, btn.innerHTML)
    /\ btn' = [btn EXCEPT !.innerHTML = CopiedLabel, !.copied = TRUE]
    /\ UNCHANGED clicks
    /\ UNCHANGED <<pipelineVars, tableVars>>

\* Lines 373-375: the write failed; only console.error runs.
WriteRejected ==
    /\ pendingWrites > 0
    /\ pendingWrites' = pendingWrites - 1
    /\ UNCHANGED <<btn, clipboard, timers, clicks>>
    /\ UNCHANGED <<pipelineVars, tableVars>>

\* Lines 369-372: the oldest timer fires (all have the same delay).
TimerFires ==
    /\ timers # <<>>
    /\ btn' = [btn EXCEPT !.innerHTML = Head(timers), !.copied = FALSE]
    /\ timers' = Tail(timers)
    /\ UNCHANGED <<clipboard, pendingWrites, clicks>>
    /\ UNCHANGED <<pipelineVars, tableVars>>

NextButton ==
    \/ Click
    \/ WriteResolved
    \/ WriteRejected
    \/ TimerFires

SpecButton == InitButton /\ [][NextButton]_vars

----------------------------------------------------------------------------
(* The footer dropdowns of the generated page (lines 384-490).  The model  *)
(* keeps the two list-valued columns; the Query column has no select       *)
(* (line 462) and its cells are skipped (line 404).                        *)

\* The table holds at most this many rows.
MaxRows == 2

FilterColumns == {"tactic", "platform"}

TableTactics == { << <<"E">> >>, << <<"P">> >>, << <<"E">>, <<"P">> >> }

TablePlatforms ==
    { << <<"W">> >>, << <<"w">> >>, << <<"W", "S">> >>,
      << <<"W">>, <<"L">> >>, <<>> }

\* The cells of a row as the script renders them.
TableRow(tactics, platforms) ==
    [tactic |-> add_tooltip(JoinList(ListOf(tactics))),
     platform |-> add_tooltip(JoinList(ListOf(platforms)))]

TableRows == { TableRow(t, p) : t \in TableTactics, p \in TablePlatforms }

Tables == UNION { [1..n -> TableRows] : n \in 1..MaxRows }

\* $.fn.dataTable.util.escapeRegex (line 472): every character of the term
\* stands for itself in the pattern.
EscapeRegexChar(c) ==
    CASE c = "." -> "\\."
      [] c = "*" -> "\\*"
      [] OTHER -> c

escapeRegex(rawInput) == [i \in 1..Len(rawInput) |-> EscapeRegexChar(rawInput[i])]

\* A plain substring pattern: what the search would be without the anchors.
SearchPatternUnanchored(escapedTerm) == escapedTerm

\* Line 477: '(^|,)\s*' + escapedTerm + '\s*(,|$)', a sequence of atoms.
SearchPattern(escapedTerm) ==
    <<"(^|,)", "\\s*">> \o escapedTerm \o <<"\\s*", "(,|$)">>

LiteralOf(atom) ==
    CASE atom = "\\." -> "."
      [] atom = "\\*" -> "*"
      [] OTHER -> atom

RECURSIVE MatchAt(_, _, _)
\* Whether the atoms of pat match text from position pos on; a literal
\* matches ignoring case (column.search's caseInsen defaults to true).
MatchAt(pat, text, pos) ==
    IF pat = <<>> THEN TRUE
    ELSE LET atom == pat[1]
             rest == Tail(pat)
             here == pos <= Len(text)
         IN CASE atom = "(^|,)" ->
                    \/ pos = 1 /\ MatchAt(rest, text, pos)
                    \/ here /\ text[pos] = "," /\ MatchAt(rest, text, pos + 1)
              [] atom = "\\s*" ->
                    \/ MatchAt(rest, text, pos)
                    \/ here /\ IsSpace(text[pos]) /\ MatchAt(pat, text, pos + 1)
              [] atom = "(,|$)" ->
                    \/ here /\ text[pos] = "," /\ MatchAt(rest, text, pos + 1)
                    \/ pos = Len(text) + 1 /\ MatchAt(rest, text, pos)
              [] OTHER ->
                    /\ here
                    /\ LowerChar(text[pos]) = LowerChar(LiteralOf(atom))
                    /\ MatchAt(rest, text, pos + 1)

\* RegExp.prototype.test: a match anywhere in the text.
RegexTest(pat, text) == \E pos \in 1..(Len(text) + 1) : MatchAt(pat, text, pos)

\* The rows DataTables leaves visible: those whose cell text passes every
\* column's search; an empty search passes every row.
filteredRows(data, search) ==
    { i \in 1..Len(data) :
        \A c \in FilterColumns :
            search[c] = <<>> \/ RegexTest(search[c], textContent(data[i][c])) }

\* Lines 397-416: the unique items of a column's cells among the rows shown.
uniqueValues(data, rows, c) ==
    UNION { {cleanItems(textContent(data[i][c]))[k] :
                k \in 1..Len(cleanItems(textContent(data[i][c])))} :
            i \in {r \in rows : data[r][c] # <<>>} }

\* Lines 384-432: a select with a chosen value is left as it is; every other
\* select gets "All" and the unique values of the rows shown.
updateDropdowns(data, rows, vals, options) ==
    [c \in FilterColumns |->
        IF vals[c] # <<>> THEN options[c] ELSE uniqueValues(data, rows, c)]

AllRows(data) == 1..Len(data)

\* Lines 437-485: the table is initialised, every select holds "All" alone
\* and initComplete calls updateDropdowns.
InitTable ==
    /\ tableData \in Tables
    /\ colSearch = [c \in FilterColumns |-> <<>>]
    /\ selectVal = [c \in FilterColumns |-> <<>>]
    /\ visible = AllRows(tableData)
    /\ selectOptions =
          updateDropdowns(tableData, AllRows(tableData),
                          [c \in FilterColumns |-> <<>>],
                          [c \in FilterColumns |-> {}])
    /\ techniques_model = <<>>
    /\ PipelineDone
    /\ ButtonIdle

\* The change handler's search, then draw() and the draw listener
\* (lines 470-479, 488-490).
SearchAndDraw(c, v, pattern) ==
    /\ selectVal' = [selectVal EXCEPT ![c] = v]
    /\ colSearch' = [colSearch EXCEPT ![c] = pattern]
    /\ visible' = filteredRows(tableData, colSearch')
    /\ selectOptions' =
          updateDropdowns(tableData, visible', selectVal', selectOptions)
    /\ UNCHANGED tableData
    /\ UNCHANGED <<pipelineVars, buttonVars>>

\* The user picks a value a select offers (lines 476-477).
SelectValue ==
    \E c \in FilterColumns : \E v \in selectOptions[c] :
        SearchAndDraw(c, v, SearchPattern(escapeRegex(v)))

\* The user picks "All" (lines 474-475).
SelectAll ==
    \E c \in FilterColumns : \E v \in {<<>>} :
        SearchAndDraw(c, v, <<>>)

\* Any other redraw (sorting, paging) runs the draw listener (lines 488-490).
Redraw ==
    /\ visible' = filteredRows(tableData, colSearch)
    /\ selectOptions' =
          updateDropdowns(tableData, visible', selectVal, selectOptions)
    /\ UNCHANGED <<tableData, colSearch, selectVal>>
    /\ UNCHANGED <<pipelineVars, buttonVars>>

NextTable ==
    \/ SelectValue
    \/ SelectAll
    \/ Redraw

SpecTable == InitTable /\ [][NextTable]_vars

----------------------------------------------------------------------------
(* Claims about the pipeline (Spec).                                       *)

\* The row of the rendered table that technique t gives.
RenderedRow(t) ==
    to_html(<<Sanitize(WithQuery(FormatRow(JoinRow(parsed_techniques(t)))))>>)[1]

ListFields == {"tactic", "platform"}

\* A label that survives the comma round trip: not empty, no comma, no
\* leading or trailing white space.
CleanLabel(label) ==
    /\ label # <<>>
    /\ \A i \in 1..Len(label) : label[i] # ","
    /\ Strip(label) = label

CleanList(x) == x.isList /\ \A k \in 1..Len(x.items) : CleanLabel(x.items[k])

\* C3 as stated: the joined tactic (platform) string of a row whose input
\* value is a list, split on commas, is the input list.
C3_SplitIsOriginal ==
    pc = "format" =>
        \A i \in 1..Len(df) : \A f \in ListFields :
            techniques_model[i][f].isList =>
                Split(df[i][f], ",") = techniques_model[i][f].items

\* C3 amended: for a list of clean labels, the joined string split on commas
\* with every item trimmed and empty items dropped (as the page's dropdown
\* code does) is the input list, both as joined and as read back from the
\* rendered cell.
C3_SplitTrimIsOriginal ==
    /\ pc = "format" =>
          \A i \in 1..Len(df) : \A f \in ListFields :
              CleanList(techniques_model[i][f]) =>
                  cleanItems(df[i][f]) = techniques_model[i][f].items
    /\ pc = "done" =>
          \A i \in 1..Len(df) : \A f \in ListFields :
              CleanList(techniques_model[i][f]) =>
                  cleanItems(textContent(df[i][f])) = techniques_model[i][f].items

\* A list of two clean labels has been joined and rendered.
C3_Witness ==
    /\ pc = "done"
    /\ \E i \in 1..Len(df) : \E f \in ListFields :
          /\ CleanList(techniques_model[i][f])
          /\ Len(techniques_model[i][f].items) = 2
          /\ cleanItems(textContent(df[i][f])) = techniques_model[i][f].items

HasOnclick(button) == \E k \in 1..Len(button) : button[k] = Lit(" onclick=\"")
HasLabel(button, label) == \E k \in 1..Len(button) : button[k] = Lit(label)
IsDisabled(button) == \E k \in 1..Len(button) : button[k] = Lit(" disabled")

IsNoFilterButton(button) ==
    HasLabel(button, " No Filter") /\ IsDisabled(button) /\ ~HasOnclick(button)

IsCopyKqlButton(button) ==
    HasLabel(button, " Copy KQL") /\ ~IsDisabled(button) /\ HasOnclick(button)

EmptyList(x) == x.isList /\ x.items = <<>>

\* C4 as stated: an empty filter_in list gives the disabled No Filter
\* button, and a filter that formats to a non-empty string other than white
\* space or "nan" gives the active Copy KQL button.
C4_ButtonStates ==
    pc = "done" =>
        \A i \in 1..Len(df) :
            LET f == format_filter_data(techniques_model[i].filter_in)
            IN /\ EmptyList(techniques_model[i].filter_in) =>
                      IsNoFilterButton(df[i].Query)
               /\ (f # <<>> /\ Strip(f) # <<>> /\ f # Nan) =>
                      IsCopyKqlButton(df[i].Query)

\* C4 amended: "nan" is compared ignoring letter case.
C4_ButtonStatesAnyCase ==
    pc = "done" =>
        \A i \in 1..Len(df) :
            LET f == format_filter_data(techniques_model[i].filter_in)
            IN /\ EmptyList(techniques_model[i].filter_in) =>
                      IsNoFilterButton(df[i].Query)
               /\ (f # <<>> /\ Strip(f) # <<>> /\ Lower(f) # Nan) =>
                      IsCopyKqlButton(df[i].Query)

\* The table holds a row with an empty filter list and a row with a filter.
C4_Witness ==
    /\ pc = "done"
    /\ \E i \in 1..Len(df) :
          EmptyList(techniques_model[i].filter_in) /\ IsNoFilterButton(df[i].Query)
    /\ \E i \in 1..Len(df) :
          /\ techniques_model[i].filter_in.isList
          /\ techniques_model[i].filter_in.items # <<>>
          /\ IsCopyKqlButton(df[i].Query)

\* Text of the row that stands in the HTML and is not HTML-escaped.
Unescaped(text) == \E i \in 1..Len(text) : text[i] \in HtmlSpecial

\* C2: in the generated table no value of a row stands unescaped.
C2_AllEscaped ==
    pc = "done" =>
        \A i \in 1..Len(html) : \A k \in 1..Len(html[i]) :
            \A n \in 1..Len(html[i][k]) :
                html[i][k][n].data => ~Unescaped(html[i][k][n].s)

----------------------------------------------------------------------------
(* Claims about the Copy KQL button (SpecButton).                          *)

AllDicts(x) ==
    x.isList /\ x.items # <<>> /\ \A k \in 1..Len(x.items) : x.items[k].isDict

RECURSIVE PairConditions(_)
\* One condition key == 'value' for every pair of every dictionary, in order.
PairConditions(entries) ==
    IF entries = <<>> THEN <<>>
    ELSE [k \in 1..Len(entries[1].pairs) |->
             entries[1].pairs[k].key \o <<" ", "=", "=", " ", "'">>
             \o entries[1].pairs[k].value \o <<"'">>]
         \o PairConditions(Tail(entries))

ExpectedQuery(t) ==
    t.event_id \o Where \o JoinWith(PairConditions(t.filter_in.items), And)

\* C6: for a row whose filter_in is a non-empty list of dictionaries, the
\* query written to the clipboard is the table name, " | where " and one
\* condition key == 'value' per key/value pair, joined by " and ".
C6_QueryPerPair ==
    (clipboard # <<>> /\ AllDicts(btn.technique.filter_in)) =>
        clipboard = ExpectedQuery(btn.technique)

\* C7: once no write is pending and every timer has fired, the button shows
\* its Copy KQL label again and has no 'copied' class.
C7_LabelRestored ==
    (pendingWrites = 0 /\ timers = <<>>) =>
        (btn.innerHTML = CopyKqlLabel /\ ~btn.copied)

----------------------------------------------------------------------------
(* Claims about the dropdown filters (SpecTable).                          *)

\* The trimmed items of row i's cell in column c.
ItemsOf(i, c) ==
    LET items == cleanItems(textContent(tableData[i][c]))
    IN {items[k] : k \in 1..Len(items)}

\* The values that occur in column c among the visible rows.
VisibleValues(c) == UNION { ItemsOf(i, c) : i \in visible }

\* C1: when a filter is selected in one column, every other column's
\* dropdown offers only values that occur in that column among the visible
\* rows.
C1_DropdownsConsistent ==
    \A c \in FilterColumns :
        selectVal[c] # <<>> =>
            \A d \in FilterColumns \ {c} : selectOptions[d] \subseteq VisibleValues(d)

\* A select without a value of its own offers exactly the values of the
\* visible rows: the part of C1 that updateDropdowns does keep.
UnselectedDropdownsConsistent ==
    \A d \in FilterColumns :
        selectVal[d] = <<>> => selectOptions[d] = VisibleValues(d)

ProperSubstring(v, item) ==
    /\ Len(v) < Len(item)
    /\ \E k \in 0..(Len(item) - Len(v)) : SubSeq(item, k + 1, k + Len(v)) = v

\* C8 as stated: the visible rows are exactly those whose cell, in every
\* column with a selected value v, has v as a whole item.
C8_WholeItemExact ==
    visible = { i \in 1..Len(tableData) :
                  \A c \in FilterColumns :
                      selectVal[c] = <<>> \/ selectVal[c] \in ItemsOf(i, c) }

\* C8 amended: the visible rows are exactly those whose cell, in every
\* column with a selected value v, has an item equal to v ignoring letter
\* case; a cell whose only item holds v as a proper substring is hidden; a
\* column set to "All" has no filter.
C8_WholeItemAnyCase ==
    /\ visible = { i \in 1..Len(tableData) :
                     \A c \in FilterColumns :
                         \/ selectVal[c] = <<>>
                         \/ \E item \in ItemsOf(i, c) :
                               Lower(item) = Lower(selectVal[c]) }
    /\ \A c \in FilterColumns : \A i \in 1..Len(tableData) :
          (/\ selectVal[c] # <<>>
           /\ \E item \in ItemsOf(i, c) :
                 ItemsOf(i, c) = {item} /\ ProperSubstring(selectVal[c], item))
          => i \notin visible
    /\ \A c \in FilterColumns : selectVal[c] = <<>> => colSearch[c] = <<>>

\* "W" is selected: a row with the items W and L is shown and a row whose
\* only item is WS is hidden.
C8_Witness ==
    /\ selectVal["platform"] = <<"W">>
    /\ \E i \in visible : ItemsOf(i, "platform") = {<<"W">>, <<"L">>}
    /\ \E i \in 1..Len(tableData) :
          ItemsOf(i, "platform") = {<<"W", "S">>} /\ i \notin visible

====
